---- MODULE Spec2Model ----
(***************************************************************************)
(* Medical-records access control (contracts/hello-world/src/lib.rs).      *)
(*                                                                         *)
(* The contract keeps all of its state in the host's key-value store:      *)
(*   persistent : AuthorizedProviders::Patient(addr) -> Vec<Address>       *)
(*   instance   : (COUNT, addr) -> u64   and   (LOG, addr) -> AccessLog    *)
(* Each invocation runs to completion or traps; a trap (a failed           *)
(* require_auth or the panic! in access_records) commits no write.         *)
(* extend_ttl only moves an entry's expiry ledger; it never changes a      *)
(* stored value, and archival by the host is not part of the contract, so  *)
(* the expiry ledger is not carried in the state.                          *)
(*                                                                         *)
(* Option<T> is a sequence of length 0 (None) or 1 (Some).                 *)
(***************************************************************************)
EXTENDS Integers, Sequences, FiniteSets, TLC

\* ---------------------------------------------------------------- bounds
\* a run makes at most MaxAccesses successful access_records calls (the u64
\* counter of a patient cannot reach 2^64 in any run)
MaxAccesses == 2
\* the ledger timestamp runs over 0..MaxTime
MaxTime == 1

\* Identities. An Address is a patient or a provider by use only.
Patients == {"alice", "bob"}
Providers == {"bob", "carol"}
Address == Patients \cup Providers
\* an invocation that carries nobody's authorization
Anonymous == "anonymous"

\* ---------------------------------------------------------------- state
VARIABLES
    persistent,        \* [Address -> Option(Vec<Address>)]  key Patient(addr)
    instance_count,    \* [Address -> Option(u64)]           key (COUNT, addr)
    instance_log,      \* [Address -> Option(AccessLog)]     key (LOG, addr)
    ledger_timestamp,  \* env.ledger().timestamp()
    call,              \* the invocation that made the last step, and its outcome
    ret,               \* value returned by the last invocation (view_audit_trail)
    notice,            \* the log! line the last invocation emitted
    granted,           \* [Address -> [Address -> BOOLEAN]]: some grant_access of
                       \*   (patient, provider) succeeded and no revoke_access of
                       \*   it succeeded since the latest one
    was_member,        \* the provider argument of the last invocation was in the
                       \*   patient's stored set when the invocation started
    accesses,          \* [Address -> Nat]: successful access_records per patient
    last_access        \* [Address -> Option(...)]: the last successful access_records

vars == <<persistent, instance_count, instance_log, ledger_timestamp,
          call, ret, notice, granted, was_member, accesses, last_access>>

store == <<persistent, instance_count, instance_log>>

\* ---------------------------------------------------------------- observations
\* What an observer reads off a store, written without the contract's helpers.
\* the providers in patient P's stored vector (no entry: none)
AuthorizationSet(st, P) ==
    IF st[P] = <<>> THEN {} ELSE {st[P][1][i] : i \in 1..Len(st[P][1])}

\* the stored vector of patient P, no entry read as the empty vector
AuthorizationSeq(st, P) == IF st[P] = <<>> THEN <<>> ELSE st[P][1]

\* how often Q occurs in P's stored vector
Occurrences(st, P, Q) ==
    Cardinality({i \in 1..Len(AuthorizationSeq(st, P)) : AuthorizationSeq(st, P)[i] = Q})

\* the number of successful access_records calls so far, over all patients
RECURSIVE SumOver(_, _)
SumOver(f, S) ==
    IF S = {} THEN 0
    ELSE LET x == CHOOSE y \in S : TRUE IN f[x] + SumOver(f, S \ {x})

\* ---------------------------------------------------------------- Option / Vec
None == <<>>

Some(v) == <<v>>

unwrap_or(opt, default) == IF opt = None THEN default ELSE opt[1]

Vec_new == <<>>

contains_never(v, x) == FALSE

contains_always(v, x) == TRUE

contains(v, x) == \E i \in 1..Len(v) : v[i] = x

push_front(v, x) == <<x>> \o v

push_back_twice(v, x) == Append(Append(v, x), x)

push_back(v, x) == Append(v, x)

\* AccessLog { accessor, timestamp, access_count }
AccessLog(accessor, timestamp, access_count) ==
    [accessor |-> accessor, timestamp |-> timestamp, access_count |-> access_count]

\* ---------------------------------------------------------------- host
\* addr.require_auth(): the invocation carries the authorization of `caller`;
\* anything else traps before the contract touches storage.
require_auth_any(addr, caller) == TRUE

require_auth(addr, caller) == caller = addr

\* env.storage().persistent().get(&Patient(patient)).unwrap_or(Vec::new(&env))
load_providers(patient) == unwrap_or(persistent[patient], Vec_new)

\* the invocation record left by a step
Call(op, caller, patient, provider, result) ==
    [op |-> op, caller |-> caller, patient |-> patient,
     provider |-> provider, result |-> result]

\* a trapped invocation: nothing is committed
Trap(op, caller, patient, provider, result, line) ==
    /\ call' = Call(op, caller, patient, provider, result)
    /\ ret' = None
    /\ notice' = line
    /\ was_member' = (provider \in AuthorizationSet(persistent, patient))
    /\ UNCHANGED <<persistent, instance_count, instance_log, ledger_timestamp,
                   granted, accesses, last_access>>

\* ---------------------------------------------------------------- grant_access
grant_access(caller, patient, provider) ==
    IF ~require_auth(patient, caller)
    THEN Trap("grant_access", caller, patient, provider, "AuthFailure", "none")
    ELSE LET providers == load_providers(patient) IN
         /\ IF ~contains(providers, provider)
            THEN /\ persistent' = [persistent EXCEPT
                                     ![patient] = Some(push_back(providers, provider))]
                 /\ notice' = "Access granted to provider"
            ELSE /\ persistent' = persistent
                 /\ notice' = "Provider already has access"
         /\ call' = Call("grant_access", caller, patient, provider, "ok")
         /\ ret' = None
         /\ granted' = [granted EXCEPT ![patient][provider] = TRUE]
         /\ was_member' = (provider \in AuthorizationSet(persistent, patient))
         /\ UNCHANGED <<instance_count, instance_log, ledger_timestamp,
                        accesses, last_access>>

\* ---------------------------------------------------------------- revoke_access
\* the loop `for i in 0..providers.len()` that copies every p != provider
RECURSIVE revoke_loop_first(_, _, _, _)
revoke_loop_first(providers, provider, i, new_providers) ==
    IF i > Len(providers) THEN new_providers
    ELSE IF providers[i] # provider
         THEN revoke_loop_first(providers, provider, i + 1,
                                push_back(new_providers, providers[i]))
         ELSE new_providers

revoke_loop_keep_all(providers, provider, i, new_providers) == providers

RECURSIVE revoke_loop_inverted(_, _, _, _)
revoke_loop_inverted(providers, provider, i, new_providers) ==
    IF i > Len(providers) THEN new_providers
    ELSE IF providers[i] = provider
         THEN revoke_loop_inverted(providers, provider, i + 1,
                                   push_back(new_providers, providers[i]))
         ELSE revoke_loop_inverted(providers, provider, i + 1, new_providers)

RECURSIVE revoke_loop(_, _, _, _)
revoke_loop(providers, provider, i, new_providers) ==
    IF i > Len(providers) THEN new_providers
    ELSE IF providers[i] # provider
         THEN revoke_loop(providers, provider, i + 1,
                          push_back(new_providers, providers[i]))
         ELSE revoke_loop(providers, provider, i + 1, new_providers)

revoke_access_clearing_log(caller, patient, provider) ==
    IF ~require_auth(patient, caller)
    THEN Trap("revoke_access", caller, patient, provider, "AuthFailure", "none")
    ELSE LET providers == load_providers(patient)
             new_providers == revoke_loop(providers, provider, 1, Vec_new) IN
         /\ persistent' = [persistent EXCEPT ![patient] = Some(new_providers)]
         /\ instance_log' = [instance_log EXCEPT ![patient] = None]
         /\ notice' = "Access revoked from provider"
         /\ call' = Call("revoke_access", caller, patient, provider, "ok")
         /\ ret' = None
         /\ granted' = [granted EXCEPT ![patient][provider] = FALSE]
         /\ was_member' = (provider \in AuthorizationSet(persistent, patient))
         /\ UNCHANGED <<instance_count, ledger_timestamp, accesses, last_access>>

revoke_access_delete_empty(caller, patient, provider) ==
    IF ~require_auth(patient, caller)
    THEN Trap("revoke_access", caller, patient, provider, "AuthFailure", "none")
    ELSE LET providers == load_providers(patient)
             new_providers == revoke_loop(providers, provider, 1, Vec_new) IN
         /\ persistent' = [persistent EXCEPT ![patient] =
                IF new_providers = Vec_new THEN None ELSE Some(new_providers)]
         /\ notice' = "Access revoked from provider"
         /\ call' = Call("revoke_access", caller, patient, provider, "ok")
         /\ ret' = None
         /\ granted' = [granted EXCEPT ![patient][provider] = FALSE]
         /\ was_member' = (provider \in AuthorizationSet(persistent, patient))
         /\ UNCHANGED <<instance_count, instance_log, ledger_timestamp,
                        accesses, last_access>>

revoke_access_noop_notice(caller, patient, provider) ==
    IF ~require_auth(patient, caller)
    THEN Trap("revoke_access", caller, patient, provider, "AuthFailure", "none")
    ELSE LET providers == load_providers(patient)
             new_providers == revoke_loop(providers, provider, 1, Vec_new) IN
         /\ persistent' = [persistent EXCEPT ![patient] = Some(new_providers)]
         /\ notice' = IF contains(providers, provider)
                       THEN "Access revoked from provider"
                       ELSE "Provider had no access"
         /\ call' = Call("revoke_access", caller, patient, provider, "ok")
         /\ ret' = None
         /\ granted' = [granted EXCEPT ![patient][provider] = FALSE]
         /\ was_member' = (provider \in AuthorizationSet(persistent, patient))
         /\ UNCHANGED <<instance_count, instance_log, ledger_timestamp,
                        accesses, last_access>>

revoke_access(caller, patient, provider) ==
    IF ~require_auth(patient, caller)
    THEN Trap("revoke_access", caller, patient, provider, "AuthFailure", "none")
    ELSE LET providers == load_providers(patient)
             new_providers == revoke_loop(providers, provider, 1, Vec_new) IN
         /\ persistent' = [persistent EXCEPT ![patient] = Some(new_providers)]
         /\ notice' = "Access revoked from provider"
         /\ call' = Call("revoke_access", caller, patient, provider, "ok")
         /\ ret' = None
         /\ granted' = [granted EXCEPT ![patient][provider] = FALSE]
         /\ was_member' = (provider \in AuthorizationSet(persistent, patient))
         /\ UNCHANGED <<instance_count, instance_log, ledger_timestamp,
                        accesses, last_access>>

\* ---------------------------------------------------------------- access_records
\* count += 1
next_count_same(count) == count

next_count(count) == count + 1

\* the AccessLog built at lines 105-109
log_entry_first(provider, timestamp, count) ==
    AccessLog(provider, timestamp, 1)

log_entry_stale(provider, timestamp, count) ==
    AccessLog(provider, timestamp, count - 1)

log_entry(provider, timestamp, count) ==
    AccessLog(provider, timestamp, count)

\* whose authorization access_records requires: provider.require_auth()
access_principal_patient(patient, provider) == patient

access_principal(patient, provider) == provider

\* the key (LOG, patient) built from the handler's arguments
log_key_provider(patient, provider) == provider

log_key(patient, provider) == patient

access_records(caller, patient, provider) ==
    IF ~require_auth(access_principal(patient, provider), caller)
    THEN Trap("access_records", caller, patient, provider, "AuthFailure", "none")
    ELSE LET providers == load_providers(patient) IN
         IF ~contains(providers, provider)
         THEN Trap("access_records", caller, patient, provider, "NotAuthorized",
                   "Unauthorized access attempt")
         ELSE LET timestamp == ledger_timestamp
                  count == next_count(unwrap_or(instance_count[patient], 0)) IN
              /\ SumOver(accesses, Address) < MaxAccesses
              /\ instance_log' = [instance_log EXCEPT
                     ![log_key(patient, provider)] =
                         Some(log_entry(provider, timestamp, count))]
              /\ instance_count' = [instance_count EXCEPT ![patient] = Some(count)]
              /\ notice' = "Records accessed"
              /\ call' = Call("access_records", caller, patient, provider, "ok")
              /\ ret' = None
              /\ was_member' = TRUE
              /\ accesses' = [accesses EXCEPT ![patient] = @ + 1]
              /\ last_access' = [last_access EXCEPT ![patient] =
                     Some(AccessLog(provider, ledger_timestamp, accesses[patient] + 1))]
              /\ UNCHANGED <<persistent, ledger_timestamp, granted>>

\* ---------------------------------------------------------------- view_audit_trail
\* env.storage().instance().get(&(LOG, patient))
audit_get_default(log, patient) ==
    Some(unwrap_or(log[patient], AccessLog(patient, 0, 0)))

audit_get(log, patient) == log[patient]

view_audit_trail_patient_only(caller, patient) ==
    IF ~require_auth(patient, caller)
    THEN Trap("view_audit_trail", caller, patient, patient, "AuthFailure", "none")
    ELSE /\ ret' = audit_get(instance_log, patient)
         /\ call' = Call("view_audit_trail", caller, patient, patient, "ok")
         /\ notice' = "none"
         /\ was_member' = FALSE
         /\ UNCHANGED <<persistent, instance_count, instance_log, ledger_timestamp,
                        granted, accesses, last_access>>

view_audit_trail(caller, patient) ==
    /\ ret' = audit_get(instance_log, patient)
    /\ call' = Call("view_audit_trail", caller, patient, patient, "ok")
    /\ notice' = "none"
    /\ was_member' = FALSE
    /\ UNCHANGED <<persistent, instance_count, instance_log, ledger_timestamp,
                   granted, accesses, last_access>>

\* ---------------------------------------------------------------- ledger
\* the host closes a ledger: the timestamp moves on
close_ledger ==
    /\ ledger_timestamp < MaxTime
    /\ ledger_timestamp' = ledger_timestamp + 1
    /\ call' = Call("close_ledger", "host", "host", "host", "ok")
    /\ ret' = None
    /\ notice' = "none"
    /\ was_member' = FALSE
    /\ UNCHANGED <<persistent, instance_count, instance_log,
                   granted, accesses, last_access>>

\* ---------------------------------------------------------------- specification
Init ==
    /\ persistent = [a \in Address |-> None]
    /\ instance_count = [a \in Address |-> None]
    /\ instance_log = [a \in Address |-> None]
    /\ ledger_timestamp = 0
    /\ call = Call("deploy", "host", "host", "host", "ok")
    /\ ret = None
    /\ notice = "none"
    /\ was_member = FALSE
    /\ granted = [a \in Address |-> [b \in Address |-> FALSE]]
    /\ accesses = [a \in Address |-> 0]
    /\ last_access = [a \in Address |-> None]

Grant == \E caller \in Address, patient \in Patients, provider \in Providers :
            grant_access(caller, patient, provider)

Revoke == \E caller \in Address, patient \in Patients, provider \in Providers :
            revoke_access(caller, patient, provider)

Access == \E caller \in Address, patient \in Patients, provider \in Providers :
            access_records(caller, patient, provider)

View == \E caller \in Address \cup {Anonymous}, patient \in Patients :
            view_audit_trail(caller, patient)

Next == Grant \/ Revoke \/ Access \/ View \/ close_ledger

Spec == Init /\ [][Next]_vars

\* One patient and every identity as a provider: vectors of three providers.
PatientsOrder == {"alice"}
ProvidersOrder == Address

GrantOrder ==
    \E caller \in Address, patient \in PatientsOrder, provider \in ProvidersOrder :
        grant_access(caller, patient, provider)

RevokeOrder ==
    \E caller \in Address, patient \in PatientsOrder, provider \in ProvidersOrder :
        revoke_access(caller, patient, provider)

AccessOrder ==
    \E caller \in Address, patient \in PatientsOrder, provider \in ProvidersOrder :
        access_records(caller, patient, provider)

ViewOrder ==
    \E caller \in Address \cup {Anonymous}, patient \in PatientsOrder :
        view_audit_trail(caller, patient)

NextOrder == GrantOrder \/ RevokeOrder \/ AccessOrder \/ ViewOrder \/ close_ledger

SpecOrder == Init /\ [][NextOrder]_vars
\* ================================================================ properties
\* the last step was the invocation op(P, Q) made with the authorization of A
Invoked(c, op, A, P, Q) ==
    c.op = op /\ c.caller = A /\ c.patient = P /\ c.provider = Q

\* C1 (gating): an access_records(P, Q) authorized by Q, made when Q is not in
\* P's authorization set (or P has no stored set), fails with the
\* not-authorized error and changes no authorization set, counter or record.
C1_Gating ==
    [][\A P \in Patients, Q \in Providers :
         (Invoked(call', "access_records", Q, P, Q)
            /\ Q \notin AuthorizationSet(persistent, P))
         => /\ call'.result = "NotAuthorized"
            /\ instance_count' = instance_count
            /\ instance_log' = instance_log
            /\ persistent' = persistent]_vars

C1_Witness ==
    \E P \in Patients, Q \in Providers :
        /\ call = Call("access_records", Q, P, Q, "NotAuthorized")
        /\ Q \notin AuthorizationSet(persistent, P)
        /\ instance_log[P] # None

\* C2 (monotonicity): the k-th successful access_records on P stores
\* access_count = k, whatever else was invoked in between.
C2_Monotonic ==
    \A P \in Address :
        IF accesses[P] = 0
        THEN instance_log[P] = None
        ELSE /\ instance_log[P] # None
             /\ instance_log[P][1].access_count = accesses[P]

C2_Witness ==
    \E P \in Patients :
        /\ accesses[P] >= 2
        /\ instance_log[P] # None
        /\ instance_log[P][1].access_count = accesses[P]
        /\ call.op = "access_records" /\ call.result = "ok" /\ call.patient = P

\* C3 (authorization follows the history): Q is in P's authorization set iff
\* some grant_access(P, Q) succeeded and no revoke_access(P, Q) succeeded after
\* the latest one.
C3_History ==
    \A P \in Address, Q \in Address :
        (Q \in AuthorizationSet(persistent, P)) <=> granted[P][Q]

C3_Witness ==
    \E P \in Patients, Q \in Providers :
        /\ call = Call("revoke_access", P, P, Q, "ok")
        /\ was_member
        /\ ~granted[P][Q]
        /\ AuthorizationSet(persistent, P) # {}

\* C4 (only the patient controls the set): P's stored authorization set
\* changes only in a successful grant_access(P, _) or revoke_access(P, _)
\* carrying P's authorization.
C4_PatientControls ==
    [][\A P \in Address :
         persistent'[P] # persistent[P]
         => /\ call'.op \in {"grant_access", "revoke_access"}
            /\ call'.patient = P
            /\ call'.caller = P
            /\ call'.result = "ok"]_vars

C4_Witness ==
    \E P \in Patients, Q \in Providers :
        /\ Q # P
        /\ call = Call("access_records", Q, P, Q, "ok")
        /\ AuthorizationSeq(persistent, P) = <<Q>>

\* C5 (authentication failure is atomic): grant_access / revoke_access not
\* authorized by the patient, and access_records not authorized by the
\* provider, abort and change no set, counter or record.
C5_AuthAtomic ==
    [][((call'.op \in {"grant_access", "revoke_access"} /\ call'.caller # call'.patient)
          \/ (call'.op = "access_records" /\ call'.caller # call'.provider))
        => /\ call'.result = "AuthFailure"
           /\ persistent' = persistent
           /\ instance_count' = instance_count
           /\ instance_log' = instance_log]_vars

C5_Witness ==
    \E P \in Patients, Q \in Providers, A \in Address :
        /\ A # Q
        /\ call = Call("access_records", A, P, Q, "AuthFailure")
        /\ Q \in AuthorizationSet(persistent, P)

\* C6 (grant idempotence): a grant_access(P, Q) authorized by P succeeds and
\* leaves Q exactly once in P's set; made right after a successful
\* grant_access(P, Q), it leaves P's stored set as that first call left it.
C6_GrantIdempotent ==
    [][\A P \in Patients, Q \in Providers :
         Invoked(call', "grant_access", P, P, Q)
         => /\ call'.result = "ok"
            /\ Occurrences(persistent', P, Q) = 1
            /\ (call = Call("grant_access", P, P, Q, "ok")
                  => persistent'[P] = persistent[P])]_vars

C6_Witness ==
    \E P \in Patients, Q \in Providers :
        /\ call = Call("grant_access", P, P, Q, "ok")
        /\ was_member
        /\ notice = "Provider already has access"
        /\ Occurrences(persistent, P, Q) = 1
        /\ Len(AuthorizationSeq(persistent, P)) = 2

\* C7 (revoke of an absent provider): a revoke_access(P, Q) authorized by P,
\* with Q not in P's set, succeeds and the vector read for P afterwards
\* (no entry read as empty) is the one read before.
C7_RevokeAbsent ==
    [][\A P \in Patients, Q \in Providers :
         (Invoked(call', "revoke_access", P, P, Q)
            /\ Q \notin AuthorizationSet(persistent, P))
         => /\ call'.result = "ok"
            /\ AuthorizationSeq(persistent', P) = AuthorizationSeq(persistent, P)]_vars

C7_Witness ==
    \E P \in Patients, Q \in Providers :
        /\ call = Call("revoke_access", P, P, Q, "ok")
        /\ ~was_member
        /\ Len(AuthorizationSeq(persistent, P)) = 1

\* C8 (single-slot retention): view_audit_trail(P) returns exactly the record
\* of the latest successful access_records on P: that call's provider, the
\* ledger timestamp it read and its count.
C8_SingleSlot ==
    /\ \A P \in Address : instance_log[P] = last_access[P]
    /\ call.op = "view_audit_trail" => ret = last_access[call.patient]

C8_Witness ==
    \E P \in Patients :
        /\ call.op = "view_audit_trail" /\ call.patient = P
        /\ ret # None
        /\ ret[1].access_count = 2
        /\ ret[1].timestamp = 1
        /\ ret = last_access[P]

\* C9 (absence handling): while no access_records on P has succeeded,
\* view_audit_trail(P) returns None, never a record.
C9_Absence ==
    /\ \A P \in Address : accesses[P] = 0 => instance_log[P] = None
    /\ (call.op = "view_audit_trail" /\ accesses[call.patient] = 0) => ret = None

C9_Witness ==
    \E P \in Patients, P2 \in Patients :
        /\ call.op = "view_audit_trail" /\ call.patient = P
        /\ accesses[P] = 0
        /\ ret = None
        /\ AuthorizationSet(persistent, P) # {}
        /\ accesses[P2] >= 1

\* C10 (the audit trail survives revocation): grant_access and revoke_access
\* change no counter and no record; an access_records(P, Q) made right after
\* a successful revoke_access(P, Q) fails as not authorized and leaves P's
\* record as it was.
C10_AuditSurvives ==
    [][/\ call'.op \in {"grant_access", "revoke_access"}
          => (instance_count' = instance_count /\ instance_log' = instance_log)
       /\ \A P \in Patients, Q \in Providers :
            (call = Call("revoke_access", P, P, Q, "ok")
               /\ Invoked(call', "access_records", Q, P, Q))
            => /\ call'.result = "NotAuthorized"
               /\ instance_log'[P] = instance_log[P]]_vars

C10_Witness ==
    \E P \in Patients, Q \in Providers :
        /\ call = Call("access_records", Q, P, Q, "NotAuthorized")
        /\ ~granted[P][Q]
        /\ instance_log[P] # None
        /\ instance_log[P][1].accessor = Q
        /\ instance_log[P][1].access_count = 1

\* C11 (view_audit_trail is an unauthenticated pure read): a view_audit_trail
\* succeeds whoever the caller is, also with nobody's authorization, and
\* changes no authorization set, counter or record.
C11_PureRead ==
    [][call'.op = "view_audit_trail"
        => /\ call'.result = "ok"
           /\ persistent' = persistent
           /\ instance_count' = instance_count
           /\ instance_log' = instance_log]_vars

C11_Witness ==
    \E P \in Patients :
        /\ call = Call("view_audit_trail", Anonymous, P, P, "ok")
        /\ instance_log[P] # None
        /\ ret = instance_log[P]

\* C12 (no duplicates): no provider occurs more than once in any patient's
\* stored authorization vector.
C12_NoDuplicates ==
    \A P \in Address, Q \in Address : Occurrences(persistent, P, Q) <= 1

C12_Witness ==
    \E P \in Patients, Q \in Providers :
        /\ call = Call("grant_access", P, P, Q, "ok")
        /\ ~was_member
        /\ Len(AuthorizationSeq(persistent, P)) = 2
        /\ Occurrences(persistent, P, Q) = 1
        /\ notice = "Access granted to provider"

\* C13 (the audit trail never returns to NoRecord): a stored record of P is
\* never removed, and P's record changes only in a successful
\* access_records on P, which leaves a record.
C13_NeverNoRecord ==
    [][\A P \in Address :
         /\ instance_log[P] # <<>> => instance_log'[P] # <<>>
         /\ instance_log'[P] # instance_log[P]
              => /\ call'.op = "access_records"
                 /\ call'.patient = P
                 /\ call'.result = "ok"
                 /\ instance_log'[P] # <<>>]_vars

C13_Witness ==
    \E P \in Patients, Q \in Providers :
        /\ call = Call("revoke_access", P, P, Q, "ok")
        /\ was_member
        /\ accesses[P] >= 1
        /\ instance_log[P] # <<>>
        /\ instance_log[P][1].accessor = Q

\* C14 (record and counter stay consistent): a record of P is stored iff P's
\* stored counter is at least 1, and then the record's access_count is the
\* stored counter.
C14_RecordCounter ==
    \A P \in Address :
        /\ (instance_log[P] # <<>>)
             <=> (instance_count[P] # <<>> /\ instance_count[P][1] >= 1)
        /\ instance_log[P] # <<>>
             => instance_log[P][1].access_count = instance_count[P][1]

C14_Witness ==
    \E P \in Patients, P2 \in Patients :
        /\ P2 # P
        /\ instance_count[P] = <<2>>
        /\ instance_log[P] # <<>>
        /\ instance_log[P][1].access_count = 2
        /\ instance_count[P2] = <<>>
        /\ call.op = "access_records" /\ call.result = "NotAuthorized"
        /\ call.patient = P2

\* C15 (authorization-set lifecycle), as claimed: P's stored entry is created
\* only by a successful grant_access of P, and once stored it is never
\* deleted.
C15_CreatedOnlyByGrant ==
    [][\A P \in Address :
         /\ (persistent[P] = <<>> /\ persistent'[P] # <<>>)
              => (call'.op = "grant_access" /\ call'.patient = P
                    /\ call'.caller = P /\ call'.result = "ok")
         /\ persistent[P] # <<>> => persistent'[P] # <<>>]_vars

\* C15 amended: P's stored entry is created only by a successful
\* grant_access or revoke_access of P (none is stored before the first of
\* them), and once stored it is never deleted: a successful revoke_access
\* leaves a stored vector, empty when the last provider was revoked.
C15_Lifecycle ==
    [][\A P \in Address :
         /\ (persistent[P] = <<>> /\ persistent'[P] # <<>>)
              => (call'.op \in {"grant_access", "revoke_access"} /\ call'.patient = P
                    /\ call'.caller = P /\ call'.result = "ok")
         /\ persistent[P] # <<>> => persistent'[P] # <<>>
         /\ (call'.op = "revoke_access" /\ call'.patient = P /\ call'.result = "ok")
              => /\ persistent'[P] # <<>>
                 /\ AuthorizationSet(persistent, P) \subseteq {call'.provider}
                      => persistent'[P] = << <<>> >>]_vars

C15_Witness ==
    \E P \in Patients, Q \in Providers :
        /\ call = Call("revoke_access", P, P, Q, "ok")
        /\ was_member
        /\ persistent[P] = << <<>> >>

\* C16 (order preservation): a grant_access(P, Q) that adds Q appends it at
\* the end of P's vector, and a revoke_access(P, Q) leaves exactly the
\* previous vector without Q, the others in their order.
C16_OrderPreserved ==
    [][\A P \in Address, Q \in Address :
         /\ (call' = Call("grant_access", P, P, Q, "ok")
                /\ Q \notin AuthorizationSet(persistent, P))
              => AuthorizationSeq(persistent', P)
                   = Append(AuthorizationSeq(persistent, P), Q)
         /\ call' = Call("revoke_access", P, P, Q, "ok")
              => AuthorizationSeq(persistent', P)
                   = SelectSeq(AuthorizationSeq(persistent, P), LAMBDA x : x # Q)]_vars

C16_Witness ==
    \E P \in PatientsOrder, Q \in ProvidersOrder :
        /\ call = Call("revoke_access", P, P, Q, "ok")
        /\ was_member
        /\ Len(AuthorizationSeq(persistent, P)) = 2
        /\ AuthorizationSeq(persistent, P)[1] # "alice"

\* C17 (per-patient isolation): an invocation with patient argument P,
\* successful or not, leaves the authorization set, counter and record of
\* every other identity unchanged, also those of the provider argument.
C17_Isolation ==
    [][\A P \in Address :
         (call'.op \in {"grant_access", "revoke_access", "access_records",
                         "view_audit_trail"}
            /\ call'.patient = P)
         => \A P2 \in Address \ {P} :
                /\ persistent'[P2] = persistent[P2]
                /\ instance_count'[P2] = instance_count[P2]
                /\ instance_log'[P2] = instance_log[P2]]_vars

C17_Witness ==
    \E P \in Patients, Q \in Providers :
        /\ Q # P
        /\ call = Call("access_records", Q, P, Q, "ok")
        /\ persistent[Q] # <<>>
        /\ instance_log[Q] # <<>>
        /\ instance_log[Q][1].accessor = Q
        /\ instance_log[P][1].access_count = 1

\* C18 (notice asymmetry): a successful revoke_access emits "access revoked"
\* whether or not the provider was in the set; a successful grant_access
\* emits "access granted" only when it adds the provider, and "already has
\* access", leaving the stored set as it is, when the provider was present.
C18_Notices ==
    [][\A P \in Patients, Q \in Providers :
         /\ call' = Call("revoke_access", P, P, Q, "ok")
              => notice' = "Access revoked from provider"
         /\ call' = Call("grant_access", P, P, Q, "ok")
              => IF Q \in AuthorizationSet(persistent, P)
                 THEN /\ notice' = "Provider already has access"
                      /\ persistent' = persistent
                 ELSE /\ notice' = "Access granted to provider"
                      /\ Q \in AuthorizationSet(persistent', P)]_vars

C18_Witness ==
    \E P \in Patients, Q \in Providers :
        /\ call = Call("revoke_access", P, P, Q, "ok")
        /\ ~was_member
        /\ notice = "Access revoked from provider"
        /\ AuthorizationSet(persistent, P) # {}

====
